---------------------------- MODULE Spec2Model ----------------------------
(***************************************************************************)
(* A model of the PDFextractor repository: the OCR tools (ocr.py,          *)
(* batch_ocr.py) and the line-item extraction tool (extract.py).           *)
(*                                                                         *)
(* Text is a sequence of one-character strings, so that the regular        *)
(* expressions, str.strip, str.split and the substring tests of the source *)
(* are computed character by character.                                    *)
(***************************************************************************)
EXTENDS Integers, Sequences, FiniteSets, TLC

(***************************************************************************)
(* Bounds of the model.                                                    *)
(***************************************************************************)
\* The most files glob.glob("*.pdf") returns.
MaxFiles == 2
\* The most lines of a page's extracted text.
MaxLines == 2
\* The most rows (header included) of an extracted table.
MaxRows == 3
\* The most columns of an extracted table.
MaxCols == 2
\* The most cells under the header of an extracted table.
MaxCells == 4
\* The most whitespace characters around the first page's text (OCR tools).
MaxPad == 1

(***************************************************************************)
(* Program constants.                                                      *)
(***************************************************************************)
\* len(text_on_page.strip()) > 100
SearchableMinLen == 100
\* (.{10,}?)
DescMinChars == 10
\* (?:\S+\s+){0,5}
MaxJunkTokens == 5
\* [\d,\.]{1,10}
MaxTrailingNumChars == 10
\* len(description) > 5
MinDescLen == 5
\* \d{1,3}
MaxLeadDigits == 3
\* ,\d{3}
GroupDigits == 3
\* \.\d{2}
DecimalDigits == 2

(***************************************************************************)
(* Characters and strings.                                                 *)
(***************************************************************************)
IsSpace(c) == c \in {" ", "\n", "\t", "\r", "\f"}

IsDigit(c) == c \in {"0", "1", "2", "3", "4", "5", "6", "7", "8", "9"}

\* The character classes of the source's regular expressions.
InClass(c, cls) ==
    CASE cls = "space"    -> IsSpace(c)                      \* \s
      [] cls = "nonspace" -> ~IsSpace(c)                     \* \S
      [] cls = "digit"    -> IsDigit(c)                      \* \d
      [] cls = "num"      -> IsDigit(c) \/ c \in {",", "."}  \* [\d,\.]
      [] cls = "dot"      -> c # "\n"                        \* .

Max(S) == CHOOSE x \in S : \A y \in S : y <= x

Min(S) == CHOOSE x \in S : \A y \in S : x <= y

\* The length of the longest run of characters of class cls that starts at
\* position p of T (what a greedy cls* first consumes).
RECURSIVE Run(_, _, _)
Run(T, p, cls) ==
    IF p <= Len(T) /\ InClass(T[p], cls) THEN 1 + Run(T, p + 1, cls) ELSE 0

\* str.strip(): leading and trailing whitespace removed.
strip(T) ==
    LET lead == Run(T, 1, "space")
        keep == {j \in 1..Len(T) : ~IsSpace(T[j])}
    IN  IF keep = {} THEN <<>> ELSE SubSeq(T, lead + 1, Max(keep))

\* str.split('\n')
RECURSIVE split(_)
split(T) ==
    LET nl == {j \in 1..Len(T) : T[j] = "\n"}
    IN  IF nl = {} THEN <<T>>
        ELSE <<SubSeq(T, 1, Min(nl) - 1)>> \o split(SubSeq(T, Min(nl) + 1, Len(T)))

\* '\n'.join(lines)
RECURSIVE join(_)
join(lines) ==
    IF lines = <<>> THEN <<>>
    ELSE IF Len(lines) = 1 THEN lines[1]
    ELSE lines[1] \o <<"\n">> \o join(Tail(lines))

\* sub in s
Contains(s, sub) ==
    \E i \in 1..(Len(s) - Len(sub) + 1) : SubSeq(s, i, i + Len(sub) - 1) = sub

\* s.replace(old, new), every occurrence, left to right.
RECURSIVE replace(_, _, _)
replace(s, old, new) ==
    IF s = <<>> THEN <<>>
    ELSE IF Len(s) >= Len(old) /\ SubSeq(s, 1, Len(old)) = old
         THEN new \o replace(SubSeq(s, Len(old) + 1, Len(s)), old, new)
         ELSE <<s[1]>> \o replace(Tail(s), old, new)

(***************************************************************************)
(* PRICE_REGEX (re.MULTILINE), matched as Python's backtracking matcher    *)
(* does: a lazy quantifier tries the shortest first, a greedy one the      *)
(* longest first, and the first path that reaches the end is the match.    *)
(* A position is an index in 1..Len(T)+1; 0 stands for "no match".         *)
(***************************************************************************)
\* $ under re.MULTILINE: the end of the string or just before a newline.
AtEOL(T, p) == p = Len(T) + 1 \/ (p <= Len(T) /\ T[p] = "\n")

\* \s*$ from p: the position after the longest run of whitespace that ends
\* at an end of line; 0 when there is none.
TailEnd(T, p) ==
    LET ok == {k \in 0..Run(T, p, "space") : AtEOL(T, p + k)}
    IN  IF ok = {} THEN 0 ELSE p + Max(ok)

\* The number of consecutive groups ,\d{3} that start at p.
RECURSIVE GroupRun(_, _)
GroupRun(T, p) ==
    IF /\ p + GroupDigits <= Len(T)
       /\ T[p] = ","
       /\ \A j \in 1..GroupDigits : IsDigit(T[p + j])
    THEN 1 + GroupRun(T, p + GroupDigits + 1)
    ELSE 0

NoMatch == [ok |-> FALSE, from |-> 0, to |-> 0, end |-> 0]

\* \$(\d{1,3}(?:,\d{3})*\.\d{2})\s*$ from p. d digits and g groups are both
\* greedy: the match is the successful pair (d, g) that is greatest in
\* lexicographic order. [from, to] is group 2 and end the position after the
\* whole match.
PriceAt(T, p) ==
    IF ~(p <= Len(T) /\ T[p] = "$") THEN NoMatch
    ELSE
      LET dmax  == Min({MaxLeadDigits, Run(T, p + 1, "digit")})
          after(d, g) == p + 1 + d + g * (GroupDigits + 1)
          good(d, g) ==
              LET q == after(d, g)
              IN  /\ q + DecimalDigits <= Len(T)
                  /\ T[q] = "."
                  /\ \A j \in 1..DecimalDigits : IsDigit(T[q + j])
                  /\ TailEnd(T, q + DecimalDigits + 1) # 0
          cands == UNION {{<<d, g>> : g \in {h \in 0..GroupRun(T, p + 1 + d) : good(d, h)}} :
                          d \in 1..dmax}
      IN  IF cands = {} THEN NoMatch
          ELSE LET c == CHOOSE c \in cands : \A e \in cands :
                            e[1] < c[1] \/ (e[1] = c[1] /\ e[2] <= c[2])
                   q == after(c[1], c[2])
               IN  [ok |-> TRUE, from |-> p + 1, to |-> q + DecimalDigits,
                    end |-> TailEnd(T, q + DecimalDigits + 1)]

\* (?:\S+\s+){0,r} followed by the price, from p. One more junk token is
\* tried first (greedy); when the rest cannot match after it, the price is
\* tried at p. Within a token \S+ and \s+ can only take their longest runs:
\* a shorter \S+ is followed by a non-space, and after a shorter \s+ comes a
\* space, which neither \S+ nor \$ matches.
RECURSIVE JunkThenPrice(_, _, _)
JunkThenPrice(T, p, r) ==
    LET a == Run(T, p, "nonspace")
        b == Run(T, p + a, "space")
        more == IF r > 0 /\ a >= 1 /\ b >= 1
                THEN JunkThenPrice(T, p + a + b, r - 1)
                ELSE NoMatch
    IN  IF more.ok THEN more ELSE PriceAt(T, p)

\* The whole pattern from s: (.{10,}?)\s+ is lazy, so the shortest
\* description after which the rest matches is taken. g1 and g2 are the two
\* groups, end the position after the match.
MatchAt(T, s) ==
    LET room == Run(T, s, "dot")
        rest(L) == JunkThenPrice(T, s + L + Run(T, s + L, "space"), MaxJunkTokens)
        good == {L \in DescMinChars..room :
                    /\ s + L <= Len(T)
                    /\ IsSpace(T[s + L])
                    /\ rest(L).ok}
    IN  IF good = {} THEN [ok |-> FALSE, g1 |-> <<>>, g2 |-> <<>>, end |-> 0]
        ELSE LET L == Min(good)
                 m == rest(L)
             IN  [ok |-> TRUE, g1 |-> SubSeq(T, s, s + L - 1),
                  g2 |-> SubSeq(T, m.from, m.to), end |-> m.end]

\* PRICE_REGEX.findall(T): the leftmost match from s, then on from its end.
RECURSIVE findall(_, _)
findall(T, s) ==
    IF s > Len(T) THEN <<>>
    ELSE LET m == MatchAt(T, s)
         IN  IF m.ok THEN <<<<m.g1, m.g2>>>> \o findall(T, m.end)
             ELSE findall(T, s + 1)

\* (\s+[\d,\.]{1,10}\s*)$ from s: the position after the match, 0 for none.
TrailingNumberEnd(T, s) ==
    IF ~(s <= Len(T) /\ IsSpace(T[s])) THEN 0
    ELSE LET a  == s + Run(T, s, "space")
             c  == Min({MaxTrailingNumChars, Run(T, a, "num")})
             ok == {k \in 1..c : TailEnd(T, a + k) # 0}
         IN  IF ok = {} THEN 0 ELSE TailEnd(T, a + Max(ok))

\* re.sub(r'(\s+[\d,\.]{1,10}\s*)$', '', T, flags=re.MULTILINE)
RECURSIVE StripTrailingNumber(_, _)
StripTrailingNumber(T, s) ==
    IF s > Len(T) THEN <<>>
    ELSE LET e == TrailingNumberEnd(T, s)
         IN  IF e # 0 THEN StripTrailingNumber(T, e)
             ELSE <<T[s]>> \o StripTrailingNumber(T, s + 1)

(***************************************************************************)
(* extract.py: Strategy B.                                                 *)
(***************************************************************************)
\* A Strategy B that keeps every match, whatever is left of its description.
KeepEveryDescription(description) == Len(description) >= 0

\* Only keep records where the description is substantial.
KeepDescription(description) == Len(description) > MinDescLen

\* The lines of page_text stripped, the empty ones dropped, rejoined.
CleanText(page_text) ==
    LET lines == split(page_text)
        stripped == [i \in 1..Len(lines) |-> strip(lines[i])]
    IN  join(SelectSeq(stripped, LAMBDA l : l # <<>>))

\* The record of one match, or none: the description without a trailing
\* number, stripped; the price with its $ put back.
RECURSIVE RegexRecords(_)
RegexRecords(matches) ==
    IF matches = <<>> THEN <<>>
    ELSE LET description == strip(StripTrailingNumber(matches[1][1], 1))
             total_price == <<"$">> \o matches[1][2]
         IN  (IF KeepDescription(description)
              THEN <<[Description |-> description, TotalPrice |-> total_price]>>
              ELSE <<>>)
             \o RegexRecords(Tail(matches))

\* extract_with_regex(page_text, filename): the rows of the DataFrame it
\* returns, <<>> when it returns None.
extract_with_regex(page_text) ==
    RegexRecords(findall(CleanText(page_text), 1))

(***************************************************************************)
(* extract.py: Strategy A. A table is a sequence of rows, a row a sequence *)
(* of cells, a cell a string or None. Columns are numbered from 0, as in   *)
(* the source.                                                             *)
(***************************************************************************)
\* A cell that pdfplumber leaves empty (Python's None).
NoneCell == <<"<None>">>

\* Series.astype(str): None becomes the string 'None'.
astype_str(cell) == IF cell = NoneCell THEN <<"N", "o", "n", "e">> ELSE cell

\* Series.str.contains(r'(\d|\$)'): a digit or a $ anywhere in the cell.
ContainsCurrencyLike(cell) ==
    \E j \in 1..Len(cell) : IsDigit(cell[j]) \/ cell[j] = "$"

\* col_data.str.contains(r'(\d|\$)', na=False).sum() of column i.
currency_count(df, i) ==
    Cardinality({r \in 1..Len(df) : ContainsCurrencyLike(astype_str(df[r][i + 1]))})

\* A threshold that half of the rows already meet.
IsPriceColumnAtHalf(df, i) == 2 * currency_count(df, i) >= Len(df)

\* currency_count / len(df) > 0.5
IsPriceColumn(df, i) == 2 * currency_count(df, i) > Len(df)

\* for i in range(df.shape[1] - 1, -1, -1): ... break
RECURSIVE ScanColumns(_, _)
ScanColumns(df, i) ==
    IF i < 0 THEN -1
    ELSE IF IsPriceColumn(df, i) THEN i
    ELSE ScanColumns(df, i - 1)

\* The rows whose price cell is kept by the filter of df_filtered.
KeepRow(row, price_col) == ContainsCurrencyLike(astype_str(row[price_col + 1]))

\* One row of output_df: the description cell as a string, its newlines made
\* spaces, stripped; the price cell as it is.
RECURSIVE TableRecords(_, _, _)
TableRecords(df, price_col, desc_col) ==
    IF df = <<>> THEN <<>>
    ELSE (IF KeepRow(df[1], price_col)
          THEN <<[Description |->
                     strip(replace(astype_str(df[1][desc_col + 1]), <<"\n">>, <<" ">>)),
                  TotalPrice |-> df[1][price_col + 1]]>>
          ELSE <<>>)
         \o TableRecords(Tail(df), price_col, desc_col)

\* table_data: the header row (none when extract_table returned no row) and
\* the rows under it; extract_table may return None.
NoTable == [isNone |-> TRUE, header |-> <<>>, body |-> <<>>]

\* The list of rows extract_table returned.
TableRows(t) == t.header \o t.body

NoneDF == [isNone |-> TRUE, rows |-> <<>>]

\* if table_data and len(table_data) > 1
TableFound(t) == ~t.isNone /\ TableRows(t) # <<>> /\ Len(TableRows(t)) > 1

\* Strategy A on table_data: price_col_index and output_df as lines 99-121
\* leave them.
StrategyA(t) ==
    IF ~TableFound(t) THEN [price_col_index |-> -1, output_df |-> NoneDF]
    ELSE LET df == Tail(TableRows(t))
             p  == ScanColumns(df, Len(df[1]) - 1)
             d  == Max({0, p - 1})
         IN  IF p = -1 THEN [price_col_index |-> -1, output_df |-> NoneDF]
             ELSE [price_col_index |-> p,
                   output_df |-> [isNone |-> FALSE, rows |-> TableRecords(df, p, d)]]

\* A Strategy B that runs after every Strategy A.
NeedsFallbackAlways(df) == df.isNone \/ df.rows = df.rows

\* if output_df is None or output_df.empty
NeedsFallback(df) == df.isNone \/ df.rows = <<>>

\* A final step that writes the report whatever output_df holds.
HasDataAlways(df) == df.isNone \/ ~df.isNone

\* if output_df is not None and not output_df.empty
HasData(df) == ~df.isNone /\ df.rows # <<>>

(***************************************************************************)
(* File names.                                                             *)
(***************************************************************************)
PdfExt == <<".", "p", "d", "f">>

OcrMarker == <<"_", "O", "C", "R", "_", "L", "a", "y", "e", "r", ".", "p", "d", "f">>

GlobMarker == <<"_", "O", "C", "R", "_", "L", "a", "y", "e", "r">>

ExtractedSuffix == <<"_", "e", "x", "t", "r", "a", "c", "t", "e", "d", ".", "m", "d">>

\* os.path.basename(path)
basename(path) ==
    LET sl == {j \in 1..Len(path) : path[j] = "/"}
    IN  IF sl = {} THEN path ELSE SubSeq(path, Max(sl) + 1, Len(path))

\* f"{os.path.basename(input_pdf_path).replace('.pdf', '')}_OCR_Layer.pdf"
OcrOutputPath(path) == replace(basename(path), PdfExt, <<>>) \o OcrMarker

\* f"{filename.replace('.pdf', '')}_extracted.md"
ExtractOutputFile(path) == replace(basename(path), PdfExt, <<>>) \o ExtractedSuffix

\* "_OCR_Layer.pdf" in filename
HasOcrMarker(path) == Contains(basename(path), OcrMarker)

(***************************************************************************)
(* ocr.py and batch_ocr.py: convert_to_searchable_pdf. The environment of  *)
(* one call is e: whether the path exists, whether fitz reads the first    *)
(* page ("ok", "error"), the page's text, and how the OCR engine ends      *)
(* ("ok", "TesseractNotFoundError", "Exception"). The result says where    *)
(* the searchability check ended, whether the OCR step was reached,        *)
(* whether the engine was invoked, the file written and the value          *)
(* returned; raised is an exception that no handler caught.                *)
(***************************************************************************)
NonePath == <<>>

RetNone == [kind |-> "None", path |-> NonePath]

RetPath(path) == [kind |-> "path", path |-> path]

RetBool(b) == [kind |-> IF b THEN "True" ELSE "False", path |-> NonePath]

\* The truth value Python gives the returned object.
Truthy(r) == r.kind = "True" \/ (r.kind = "path" /\ r.path # <<>>)

\* A check that 100 characters already pass.
EnoughTextAtThreshold(text) == Len(strip(text)) >= SearchableMinLen

\* len(text_on_page.strip()) > 100
EnoughText(text) == Len(strip(text)) > SearchableMinLen

\* except Exception as e (batch_ocr.py line 30, ocr.py line 28)
ReadHandlerCatches(exc) == exc \in {"Exception", "TesseractNotFoundError"}

\* An OCR step whose only handler is the one for a missing engine.
OcrHandlerCatchesNotFoundOnly(exc) == exc = "TesseractNotFoundError"

\* except pytesseract.TesseractNotFoundError / except Exception as e
OcrHandlerCatches(exc) == exc = "TesseractNotFoundError" \/ exc \in {"Exception"}

\* except Exception as e (extract.py line 143)
ExtractHandlerCatches(exc) == exc \in {"Exception"}

Result(check, reached, called, wrote, r, exc) ==
    [check |-> check, reachedOCR |-> reached, engineCalled |-> called,
     wrote |-> wrote, ret |-> r, raised |-> exc]

\* The second try block: render the page, invoke the engine, write the file.
PerformOCR(path, e) ==
    IF e.engine = "ok"
    THEN Result("unsearchable", TRUE, TRUE, OcrOutputPath(path),
                RetPath(OcrOutputPath(path)), "")
    ELSE Result("unsearchable", TRUE, TRUE, NonePath, RetNone,
                IF OcrHandlerCatches(e.engine) THEN "" ELSE e.engine)

\* batch_ocr.py, convert_to_searchable_pdf(input_pdf_path)
batch_ocr_convert(path, e) ==
    IF ~e.exists THEN Result("notfound", FALSE, FALSE, NonePath, RetNone, "")
    ELSE IF e.read = "error" /\ ~ReadHandlerCatches("Exception")
    THEN Result("error", FALSE, FALSE, NonePath, RetNone, "Exception")
    ELSE IF e.read = "ok" /\ EnoughText(e.text) /\ ~HasOcrMarker(path)
    THEN Result("searchable", FALSE, FALSE, NonePath, RetPath(path), "")
    ELSE IF HasOcrMarker(path)
    THEN Result("unsearchable", FALSE, FALSE, NonePath, RetNone, "")
    ELSE PerformOCR(path, e)

\* ocr.py, convert_to_searchable_pdf(input_pdf_path)
ocr_convert(path, e) ==
    IF ~e.exists THEN Result("notfound", FALSE, FALSE, NonePath, RetNone, "")
    ELSE IF e.read = "error"
    THEN Result("error", FALSE, FALSE, NonePath, RetNone,
                IF ReadHandlerCatches("Exception") THEN "" ELSE "Exception")
    ELSE IF EnoughText(e.text)
    THEN Result("searchable", FALSE, FALSE, NonePath, RetPath(path), "")
    ELSE PerformOCR(path, e)

\* What a call observes of its environment: a page that is not read has no
\* text, an engine that is not invoked has no outcome.
Observed(e, res) ==
    [exists |-> e.exists,
     read   |-> IF e.exists THEN e.read ELSE "unread",
     text   |-> IF e.exists /\ e.read = "ok" THEN e.text ELSE <<>>,
     engine |-> IF res.engineCalled THEN e.engine ELSE "unused"]

(***************************************************************************)
(* The inputs the environment is drawn from.                               *)
(***************************************************************************)
Tools == {"extract", "batch_ocr", "ocr"}

NameA == <<"a", ".", "p", "d", "f">>

NameB == <<"b", ".", "p", "d", "f">>

NameOcr == <<"a", "_", "O", "C", "R", "_", "L", "a", "y", "e", "r", ".", "p", "d", "f">>

\* The *.pdf files of the directory, in the order glob lists them.
AllNames == <<NameA, NameB, NameOcr>>

Names == {AllNames[i] : i \in 1..Len(AllNames)}

\* What glob.glob("*.pdf") may return: the first n files of the directory.
Globs == {SubSeq(AllNames, 1, n) : n \in 0..Min({MaxFiles, Len(AllNames)})}

NoArg == [given |-> FALSE, path |-> <<>>]

Args == {NoArg} \cup {[given |-> TRUE, path |-> n] : n \in Names}

\* The text lines a page is made of.
LinePumpRental ==
    <<"C", "o", "n", "c", "r", "e", "t", "e", " ", "P", "u", "m", "p", " ", "R", "e", "n", "t", "a", "l", " ", "4", " ", "h", "r", "s", " ", "$", "4", "2", "5", ".", "0", "0">>

LineTax ==
    <<"T", "a", "x", " ", "$", "5", ".", "0", "0">>

LineWidget ==
    <<"W", "i", "d", "g", "e", "t", " ", "1", "2", "3", " ", "$", "5", ".", "0", "0">>

LineShort ==
    <<"a", "b", " ", "1", "2", "3", "4", "5", "6", "7", " ", "$", "5", ".", "0", "0">>

LineNoPrice ==
    <<"D", "e", "l", "i", "v", "e", "r", "y", " ", "C", "h", "a", "r", "g", "e">>

LineBlank ==
    <<" ", " ">>

LinePadded ==
    <<" ", " ", "G", "r", "a", "v", "e", "l", " ", "B", "a", "s", "e", " ", "5", "7", " ", "$", "1", ",", "2", "3", "4", ".", "5", "6", " ">>

Lines ==
    {LinePumpRental,
     LineTax,
     LineWidget,
     LineShort,
     LineNoPrice,
     LineBlank,
     LinePadded}

\* The page texts of pdfplumber's extract_text(): up to MaxLines lines.
Texts ==
    {join(ls) : ls \in UNION {[1..n -> Lines] : n \in 0..MaxLines}}

\* The first-page texts of fitz's get_text(): n characters between pads of
\* whitespace.
Padded(lead, n, trail) ==
    [i \in 1..lead |-> " "] \o [i \in 1..n |-> "x"] \o [i \in 1..trail |-> "\n"]

OcrTexts ==
    {Padded(l, n, t) : l \in 0..MaxPad, t \in 0..MaxPad,
                       n \in {0, SearchableMinLen - 1, SearchableMinLen,
                              SearchableMinLen + 1}}

OcrEnvs ==
    [exists : BOOLEAN, read : {"ok", "error"}, text : OcrTexts,
     engine : {"ok", "TesseractNotFoundError", "Exception"}]

\* The cells of a table: empty, a description, a price.
Cells ==
    {NoneCell,
     <<" ", "P", "u", "m", "p", "\n", "R", "e", "n", "t", "a", "l", " ">>,
     <<"$", "5">>}

HeaderCell == <<"I", "t", "e", "m">>

\* The tables of extract_table() with nc columns: a header row over nr rows
\* of cells.
Tables(nc, nr) ==
    [isNone : {FALSE},
     header : {<<[c \in 1..nc |-> HeaderCell]>>},
     body   : [1..nr -> [1..nc -> Cells]]]

\* extract_table() may also return None or no row at all.
NoRows == [isNone |-> FALSE, header |-> <<>>, body |-> <<>>]

(***************************************************************************)
(* The state of one run of one tool.                                       *)
(***************************************************************************)
VARIABLES
    tool,             \* the script that runs
    argv,             \* sys.argv[1], when given
    globbed,          \* what glob.glob("*.pdf") returns
    pdf_files,        \* the files of the run
    batch,            \* batch mode (no argument) or single-file mode
    idx,              \* the number of files the loop has taken
    pc,               \* the position of the run
    processed_count,  \* processed_count of the batch loop
    okCalls,          \* history: the per-file calls that returned a true value
    attempts,         \* history: the paths the per-file function was called on
    exitCode,         \* the exit code of the process, -1 while it runs
    written,          \* the names of the files written
    ret,              \* the value the per-file function returned
    raised,           \* the exception that left the per-file function, "" for none
    last,             \* OCR tools: the environment and result of the last call
    table_data,       \* extract: table_data
    price_col_index,  \* extract: price_col_index
    output_df,        \* extract: output_df
    page_text,        \* extract: page_text, once Strategy B read it
    usedB,            \* extract: extract_with_regex was called for this file
    trace,            \* the components that ran on the current file, in order
    report            \* extract: the rows of the report written for this file

vars ==
    <<tool, argv, globbed, pdf_files, batch, idx, pc, processed_count, okCalls,
      attempts, exitCode, written, ret, raised, last, table_data,
      price_col_index, output_df, page_text, usedB, trace, report>>

runVars == <<tool, argv, globbed>>

loopVars == <<pdf_files, batch, idx, processed_count, okCalls, attempts>>

extractVars == <<table_data, price_col_index, output_df, page_text, usedB, report>>

NoCall ==
    [path |-> NonePath,
     env |-> [exists |-> FALSE, read |-> "unread", text |-> <<>>, engine |-> "unused"],
     res |-> Result("none", FALSE, FALSE, NonePath, RetNone, ""),
     called |-> FALSE]

\* The locals of the per-file functions before a call.
FreshLocals ==
    /\ ret = RetNone
    /\ raised = ""
    /\ last = NoCall
    /\ table_data = NoTable
    /\ price_col_index = -1
    /\ output_df = NoneDF
    /\ page_text = <<>>
    /\ usedB = FALSE
    /\ trace = <<>>
    /\ report = <<>>

\* The locals are fresh at each call.
ResetLocals ==
    /\ ret' = RetNone
    /\ raised' = ""
    /\ last' = NoCall
    /\ table_data' = NoTable
    /\ price_col_index' = -1
    /\ output_df' = NoneDF
    /\ page_text' = <<>>
    /\ usedB' = FALSE
    /\ trace' = <<>>
    /\ report' = <<>>

Init ==
    /\ tool \in Tools
    /\ argv \in Args
    /\ globbed \in Globs
    /\ argv.given => globbed = <<>>
    /\ pdf_files = <<>>
    /\ batch = FALSE
    /\ idx = 0
    /\ pc = "start"
    /\ processed_count = 0
    /\ okCalls = 0
    /\ attempts = <<>>
    /\ exitCode = -1
    /\ written = {}
    /\ FreshLocals

\* Single-file mode: the per-file function is called on sys.argv[1].
SingleFile ==
    /\ pdf_files' = <<argv.path>>
    /\ batch' = FALSE
    /\ idx' = 1
    /\ pc' = "call"
    /\ UNCHANGED exitCode

\* Batch mode over files: exit 1 when there are none.
BatchOver(files) ==
    /\ pdf_files' = files
    /\ batch' = TRUE
    /\ idx' = 0
    /\ IF files = <<>>
       THEN pc' = "exit" /\ exitCode' = 1
       ELSE pc' = "loop" /\ UNCHANGED exitCode

\* extract.py, __main__
ExtractMain ==
    /\ pc = "start" /\ tool = "extract"
    /\ IF argv.given THEN SingleFile ELSE BatchOver(globbed)
    /\ UNCHANGED <<runVars, processed_count, okCalls, attempts, written, ret,
                   raised, last, extractVars, trace>>

\* [f for f in glob.glob("*.pdf") if "_OCR_Layer" not in f]
SourcePdfs(files) == SelectSeq(files, LAMBDA f : ~Contains(f, GlobMarker))

\* batch_ocr.py, __main__
BatchOcrMain ==
    /\ pc = "start" /\ tool = "batch_ocr"
    /\ IF argv.given THEN SingleFile ELSE BatchOver(SourcePdfs(globbed))
    /\ UNCHANGED <<runVars, processed_count, okCalls, attempts, written, ret,
                   raised, last, extractVars, trace>>

\* ocr.py, __main__: usage and exit 1 without an argument.
OcrMain ==
    /\ pc = "start" /\ tool = "ocr"
    /\ IF argv.given THEN SingleFile
       ELSE /\ pc' = "exit" /\ exitCode' = 1
            /\ UNCHANGED <<pdf_files, batch, idx>>
    /\ UNCHANGED <<runVars, processed_count, okCalls, attempts, written, ret,
                   raised, last, extractVars, trace>>

\* for pdf_path in pdf_files: the next file, or the summary after the last.
BatchNext ==
    /\ pc = "loop"
    /\ IF idx < Len(pdf_files)
       THEN /\ idx' = idx + 1
            /\ pc' = "call"
            /\ ResetLocals
            /\ UNCHANGED exitCode
       ELSE /\ pc' = "done"
            /\ exitCode' = 0
            /\ UNCHANGED <<idx, ret, raised, last, extractVars, trace>>
    /\ UNCHANGED <<runVars, pdf_files, batch, processed_count, okCalls, attempts,
                   written>>

\* if f(pdf_path): processed_count += 1. An exception that left the call
\* ends the process with a traceback.
CountResult(count, r) == IF Truthy(r) THEN count + 1 ELSE count

AfterCall ==
    /\ pc = "ret"
    /\ IF raised # ""
       THEN /\ pc' = "crashed" /\ exitCode' = 1
            /\ UNCHANGED <<processed_count, okCalls>>
       ELSE /\ okCalls' = IF Truthy(ret) THEN okCalls + 1 ELSE okCalls
            /\ IF batch
               THEN /\ processed_count' = CountResult(processed_count, ret)
                    /\ pc' = "loop" /\ UNCHANGED exitCode
               ELSE /\ pc' = "done" /\ exitCode' = 0
                    /\ UNCHANGED processed_count
    /\ UNCHANGED <<runVars, pdf_files, batch, idx, attempts, written, ret, raised,
                   last, extractVars, trace>>

CurrentPath == pdf_files[idx]

\* The components of the pipeline that one call of the OCR tools runs.
OcrTrace(res) ==
    IF res.check = "notfound" THEN <<>>
    ELSE <<"checker">> \o (IF res.reachedOCR THEN <<"ocr">> ELSE <<>>)

\* One call of convert_to_searchable_pdf, of the script that runs.
ConvertToSearchable ==
    /\ pc = "call" /\ tool \in {"batch_ocr", "ocr"}
    /\ \E e \in OcrEnvs :
         LET res == IF tool = "batch_ocr" THEN batch_ocr_convert(CurrentPath, e)
                    ELSE ocr_convert(CurrentPath, e)
         IN  /\ last' = [path |-> CurrentPath, env |-> Observed(e, res), res |-> res,
                         called |-> TRUE]
             /\ ret' = res.ret
             /\ raised' = res.raised
             /\ written' = IF res.wrote = NonePath THEN written
                           ELSE written \cup {res.wrote}
             /\ trace' = OcrTrace(res)
    /\ attempts' = Append(attempts, CurrentPath)
    /\ pc' = "ret"
    /\ UNCHANGED <<runVars, pdf_files, batch, idx, processed_count, okCalls,
                   exitCode, extractVars>>

\* extract_line_items_from_pdf up to line 121: the PDF is opened, the table
\* extracted and Strategy A applied. A failure to open or to read the page is
\* caught at line 143 and the function returns False.
ExtractStrategyA ==
    /\ pc = "call" /\ tool = "extract"
    /\ attempts' = Append(attempts, CurrentPath)
    /\ trace' = <<"extractor">>
    /\ \E open \in {"ok", "Exception"} :
         IF open = "ok"
         THEN /\ \/ table_data' \in {NoTable, NoRows}
                 \/ \E nc \in 1..MaxCols : \E nr \in 0..(MaxRows - 1) :
                        /\ nc * nr <= MaxCells
                        /\ table_data' \in Tables(nc, nr)
              /\ LET a == StrategyA(table_data')
                 IN  /\ price_col_index' = a.price_col_index
                     /\ output_df' = a.output_df
              /\ pc' = "fallback"
              /\ UNCHANGED <<ret, raised>>
         ELSE /\ ret' = RetBool(FALSE)
              /\ raised' = IF ExtractHandlerCatches(open) THEN "" ELSE open
              /\ pc' = "ret"
              /\ UNCHANGED <<table_data, price_col_index, output_df>>
    /\ UNCHANGED <<runVars, pdf_files, batch, idx, processed_count, okCalls,
                   exitCode, written, last, page_text, usedB, report>>

\* Line 125: Strategy B is entered when Strategy A left no rows. table_data
\* is not read after line 121 and is dropped here.
ExtractFallbackCheck ==
    /\ pc = "fallback"
    /\ pc' = IF NeedsFallback(output_df) THEN "strategyB" ELSE "final"
    /\ table_data' = NoTable
    /\ UNCHANGED <<runVars, loopVars, exitCode, written, ret, raised, last,
                   price_col_index, output_df, page_text, usedB, trace, report>>

\* Lines 126-127: page.extract_text() and extract_with_regex.
ExtractStrategyB ==
    /\ pc = "strategyB"
    /\ \E t \in Texts :
         LET rows == extract_with_regex(t)
         IN  /\ page_text' = t
             /\ output_df' = [isNone |-> rows = <<>>, rows |-> rows]
    /\ usedB' = TRUE
    /\ pc' = "final"
    /\ UNCHANGED <<runVars, loopVars, exitCode, written, ret, raised, last,
                   table_data, price_col_index, trace, report>>

\* Lines 131-141: the report is written when there are rows; a failure to
\* write is caught at line 143.
ExtractFinal ==
    /\ pc = "final"
    /\ IF HasData(output_df)
       THEN \E write \in {"ok", "Exception"} :
              IF write = "ok"
              THEN /\ written' = written \cup {ExtractOutputFile(CurrentPath)}
                   /\ report' = output_df.rows
                   /\ trace' = Append(trace, "report")
                   /\ ret' = RetBool(TRUE)
                   /\ UNCHANGED raised
              ELSE /\ ret' = RetBool(FALSE)
                   /\ raised' = IF ExtractHandlerCatches(write) THEN "" ELSE write
                   /\ UNCHANGED <<written, report, trace>>
       ELSE /\ ret' = RetBool(FALSE)
            /\ UNCHANGED <<written, report, trace, raised>>
    /\ pc' = "ret"
    /\ UNCHANGED <<runVars, loopVars, exitCode, last, table_data,
                   price_col_index, output_df, page_text, usedB>>

Next ==
    \/ ExtractMain
    \/ BatchOcrMain
    \/ OcrMain
    \/ BatchNext
    \/ ConvertToSearchable
    \/ ExtractStrategyA
    \/ ExtractFallbackCheck
    \/ ExtractStrategyB
    \/ ExtractFinal
    \/ AfterCall

Spec == Init /\ [][Next]_vars

\* The interpreter runs the script to its end: a step that can be taken is
\* taken.
FairSpec == Spec /\ WF_vars(Next)

(***************************************************************************)
(* What the claims speak of.                                               *)
(***************************************************************************)
\* The price is of the form $d{1,3}(,ddd)*.dd, the whole of it.
IsCurrency(price) ==
    \E d \in 1..MaxLeadDigits, g \in 0..Len(price) :
       LET dot == 1 + d + g * (GroupDigits + 1) + 1
       IN  /\ Len(price) = dot + DecimalDigits
           /\ price[1] = "$"
           /\ \A j \in 2..(1 + d) : IsDigit(price[j])
           /\ \A k \in 0..(g - 1) :
                 LET c == 2 + d + k * (GroupDigits + 1)
                 IN  price[c] = "," /\ \A j \in 1..GroupDigits : IsDigit(price[c + j])
           /\ price[dot] = "."
           /\ \A j \in 1..DecimalDigits : IsDigit(price[dot + j])

\* The rows after the header row.
DataRows(t) == Tail(TableRows(t))

Columns(t) == 0..(Len(TableRows(t)[1]) - 1)

\* The cells of column i that are not None, and those among them with a digit
\* or a $.
NonNullCells(t, i) == {r \in 1..Len(DataRows(t)) : DataRows(t)[r][i + 1] # NoneCell}

MatchingCells(t, i) ==
    {r \in NonNullCells(t, i) : ContainsCurrencyLike(DataRows(t)[r][i + 1])}

\* The rightmost column of S, -1 when there is none.
Rightmost(S) == IF S = {} THEN -1 ELSE Max(S)

\* The records extract_with_regex builds from each line of the text taken
\* alone, top to bottom.
RECURSIVE PerLineRecords(_)
PerLineRecords(lines) ==
    IF lines = <<>> THEN <<>>
    ELSE extract_with_regex(lines[1]) \o PerLineRecords(Tail(lines))

(***************************************************************************)
(* C1  Strategy A precedence.                                              *)
(***************************************************************************)
\* C1: when table extraction returned at least 2 rows and the column scan
\* found a price column, Strategy B is not entered; Strategy B is entered only
\* from a Strategy A that left no rows; and the report written holds the rows
\* of one strategy only: those of Strategy B when it ran, which are the rows
\* extract_with_regex builds from the page text.
C1_StrategyAPrecedence ==
    [][/\ (pc = "fallback" /\ TableFound(table_data) /\ price_col_index # -1)
             => pc' # "strategyB"
       /\ (pc' = "strategyB" /\ pc # "strategyB")
             => (pc = "fallback" /\ NeedsFallback(output_df))
       /\ (usedB' /\ ~usedB) => NeedsFallback(output_df)
       /\ (report' # report /\ report' # <<>>)
             => /\ report' = output_df.rows
                /\ usedB => report' = extract_with_regex(page_text)]_vars

\* A report written from the rows of Strategy A, whose price column was found.
C1_Witness ==
    /\ trace = <<"extractor", "report">>
    /\ price_col_index # -1
    /\ ~usedB
    /\ report # <<>>

(***************************************************************************)
(* C2  What every emitted record satisfies.                                *)
(***************************************************************************)
\* C2 as stated (its minimum length read as "at least 6 characters"): every
\* record of the report, of either strategy, has a description of at least 6
\* characters and a price of the currency format.
C2_EveryRecordChecked ==
    \A i \in 1..Len(report) :
       /\ Len(report[i].Description) > MinDescLen
       /\ IsCurrency(report[i].TotalPrice)

\* C2 amended: a record of Strategy B has a description of more than 5
\* characters and a price of the currency format; a record of Strategy A has a
\* price cell that holds a digit or a $, and nothing more is checked of it.
C2_RecordsByStrategy ==
    \A i \in 1..Len(output_df.rows) :
       IF usedB
       THEN /\ Len(output_df.rows[i].Description) > MinDescLen
            /\ IsCurrency(output_df.rows[i].TotalPrice)
       ELSE ContainsCurrencyLike(output_df.rows[i].TotalPrice)

\* A report of Strategy B with a record whose description is cut to exactly 6
\* characters.
C2_Witness ==
    /\ usedB
    /\ report # <<>>
    /\ \E i \in 1..Len(report) : Len(report[i].Description) = MinDescLen + 1

(***************************************************************************)
(* C3  The example line.                                                   *)
(***************************************************************************)
\* C3: Strategy B on the single line "Concrete Pump Rental 4 hrs $425.00"
\* gives exactly one record, with the whole text before the price as its
\* description and "$425.00" as its price.
C3_ExampleLine ==
    (usedB /\ page_text = LinePumpRental)
       => output_df.rows =
            <<[Description |-> SubSeq(LinePumpRental, 1, 26),
               TotalPrice  |-> SubSeq(LinePumpRental, 28, 34)]>>

(***************************************************************************)
(* C4  The price column.                                                   *)
(***************************************************************************)
\* C4 as stated: the price column is the rightmost column in which more than
\* 50% of the cells that are not None hold a digit or a $.
C4_RightmostOverNonNull ==
    (pc = "fallback" /\ TableFound(table_data))
       => price_col_index =
            Rightmost({i \in Columns(table_data) :
                         2 * Cardinality(MatchingCells(table_data, i))
                            > Cardinality(NonNullCells(table_data, i))})

\* C4 amended: the price column is the rightmost column in which more than
\* 50% of all the rows after the header hold a digit or a $ in that column (a
\* None cell counts in the denominator and does not match); -1 when there is
\* no such column.
C4_RightmostOverAllRows ==
    (pc = "fallback" /\ TableFound(table_data))
       => price_col_index =
            Rightmost({i \in Columns(table_data) :
                         2 * Cardinality(MatchingCells(table_data, i))
                            > Len(DataRows(table_data))})

\* Column 0 is the price column although every cell of column 1 that is not
\* None holds a price: the None cell of column 1 counted against it.
C4_Witness ==
    /\ pc = "fallback" /\ TableFound(table_data)
    /\ price_col_index = 0
    /\ Len(TableRows(table_data)[1]) > 1
    /\ MatchingCells(table_data, 1) # {}
    /\ MatchingCells(table_data, 1) = NonNullCells(table_data, 1)

(***************************************************************************)
(* C5  The OCR tool on its own output.                                     *)
(***************************************************************************)
\* C5: a call of convert_to_searchable_pdf on an existing file whose name
\* carries the marker _OCR_Layer.pdf invokes no OCR engine and writes no file,
\* whatever the page's text and whether or not it can be read.
C5_MarkedFileIsNoOp ==
    (last.called /\ last.env.exists /\ HasOcrMarker(last.path))
       => /\ ~last.res.engineCalled
          /\ last.res.wrote = NonePath

(***************************************************************************)
(* C6  A searchable file is returned unchanged.                            *)
(***************************************************************************)
\* C6: for an existing PDF whose first page is read, whose stripped text is
\* longer than 100 characters and whose name carries no marker, the call
\* returns the input path, invokes no OCR engine and writes no file; with a
\* stripped text of exactly 100 characters the file is not searchable.
C6_SearchableUnchanged ==
    (last.called /\ last.env.exists /\ last.env.read = "ok")
       => /\ (Len(strip(last.env.text)) > SearchableMinLen /\ ~HasOcrMarker(last.path))
                => /\ last.res.check = "searchable"
                   /\ ret = RetPath(last.path)
                   /\ ~last.res.engineCalled
                   /\ last.res.wrote = NonePath
                   /\ trace = <<"checker">>
          /\ Len(strip(last.env.text)) = SearchableMinLen
                => /\ last.res.check # "searchable"
                   /\ ret # RetPath(last.path)

\* A file found searchable on 101 characters of text between whitespace.
C6_Witness ==
    /\ last.called
    /\ last.res.check = "searchable"
    /\ Len(strip(last.env.text)) = SearchableMinLen + 1
    /\ Len(last.env.text) > SearchableMinLen + 1

(***************************************************************************)
(* C7  A read failure in the OCR tool.                                     *)
(***************************************************************************)
\* C7: when reading the first page fails during the searchability check, the
\* failure is caught and the file goes on as unsearchable to the OCR
\* conversion step; the check does not end the call with a failure result.
C7_ReadFailureFailsOpen ==
    (last.called /\ last.env.read = "error")
       => /\ last.res.check = "unsearchable"
          /\ raised = ""

InEnumerationOrder ==
    /\ Len(attempts) <= Len(pdf_files)
    /\ attempts = SubSeq(pdf_files, 1, Len(attempts))

\* C9: in batch mode over N >= 1 files no exception leaves a per-file call,
\* the files are attempted once each in enumeration order, the process never
\* exits non-zero, and the loop ends with the summary: then every file has been
\* attempted, and the count reported is the number of calls that returned a
\* true value, between 0 and N.
C9_BatchCompletes ==
    /\ []((batch /\ Len(pdf_files) >= 1)
             => /\ pc # "crashed" /\ raised = ""
                /\ InEnumerationOrder
                /\ exitCode \in {-1, 0}
                /\ pc = "done"
                      => /\ attempts = pdf_files
                         /\ processed_count = okCalls
                         /\ processed_count \in 0..Len(pdf_files)
                         /\ exitCode = 0)
    /\ (batch /\ Len(pdf_files) >= 1) ~> (pc = "done")

\* A batch of two files ended with the summary "1 out of 2": the first file
\* failed and the second was still attempted, and succeeded.
C9_Witness ==
    /\ batch /\ pc = "done"
    /\ Len(pdf_files) = 2
    /\ processed_count = 1
    /\ Truthy(ret)

(***************************************************************************)
(* C10  One record per line.                                               *)
(***************************************************************************)
\* C10: the records Strategy B builds from a page text are those of its
\* lines, one line at a time and top to bottom (a line of the form
\* <text> $<price> being one from which Strategy B, given that line alone,
\* builds a record): no such line is dropped and no record is built from text
\* of more than one line.
C10_OneRecordPerLine ==
    usedB => output_df.rows = PerLineRecords(split(page_text))

=============================================================================
